---- MODULE Spec2Model ----
(***************************************************************************)
(* Booking lifecycle and invoice computation of the hotel backend          *)
(* (app/services/booking_service.py, app/services/room_service.py).        *)
(*                                                                         *)
(* The persisted store is the variable db, a record of the tables, keyed   *)
(* as the SQLModel tables are.  A service method is an operator from a     *)
(* store and its arguments to the store it leaves committed and the error  *)
(* it raises ("ok" when it returns); every session.commit() of the method  *)
(* is applied in order, so a method that raises after a commit leaves that *)
(* commit in the store, as the code does.  Uncommitted changes of a        *)
(* request that raises are dropped with its session (db/database.py).      *)
(*                                                                         *)
(* Optional columns are <<>> (None) or <<v>>.  Money is a float in the     *)
(* code; the model draws prices that are multiples of 100 and integer      *)
(* quantities and rates, for which x * (rate / 100) is the exact integer   *)
(* (x * rate) \div 100.  Time is counted in whole days.  Columns that no   *)
(* operation reads (names, descriptions, created_at, updated_at,           *)
(* last_seen) are left out.                                                *)
(***************************************************************************)
EXTENDS Integers, Sequences, FiniteSets, TLC

VARIABLES db, now, last, pc, loc, started, checked_out

vars == <<db, now, last, pc, loc, started, checked_out>>

----------------------------------------------------------------------------
(* Bounds of the model *)

\* rows the store holds at one time: bookings, line items, taxes and discounts together
MaxStore == 3
\* days the clock runs
MaxDay == 2
\* requests the worker processes begin when their steps interleave
MaxRequests == 3

----------------------------------------------------------------------------
(* Optional values *)

None == <<>>
Some(v) == <<v>>
Val(o) == o[1]

\* Python truth of an Optional[float]: None and 0 are false
Truthy(o) == o # None /\ Val(o) # 0

\* Python's "x or 0" on an Optional[float]
OrZero(o) == IF Truthy(o) THEN Val(o) ELSE 0

----------------------------------------------------------------------------
(* The seeded store *)

StandardRate == 1000

\* the first of the seeded rooms, and a guest registered before the bookings start
RoomNumbers == {101}
GuestIds == {1}

\* models.py Room: occupied defaults to False, current_guest_id to None
Room(rate) == [occupied |-> FALSE, current_guest_id |-> None, rate_per_night |-> rate]

\* room_service.py seed_rooms: the rooms numbered from 101 are Standard rooms
SeededRooms == [n \in RoomNumbers |-> Room(StandardRate)]

EmptyTable == [i \in {} |-> None]

InitDb ==
    [rooms |-> SeededRooms, guests |-> GuestIds, bookings |-> EmptyTable,
     line_items |-> EmptyTable, taxes |-> EmptyTable, discounts |-> EmptyTable,
     tasks |-> EmptyTable]

----------------------------------------------------------------------------
(* Table helpers *)

SetMax(S) == IF S = {} THEN 0 ELSE CHOOSE y \in S : \A z \in S : z <= y

\* SQLite INTEGER PRIMARY KEY without AUTOINCREMENT: one more than the largest id in use
NewId(table) == SetMax(DOMAIN table) + 1

Insert(table, id, row) == [i \in DOMAIN table \cup {id} |-> IF i = id THEN row ELSE table[i]]

Delete(table, ids) == [i \in DOMAIN table \ ids |-> table[i]]

Ok(d) == [db |-> d, result |-> "ok"]
Raise(d, e) == [db |-> d, result |-> e]

----------------------------------------------------------------------------
(* helpers.py *)

get_current_time == now

\* Python's "(later - earlier).days or 1"
DaysOr1(later, earlier) == IF later - earlier = 0 THEN 1 ELSE later - earlier

\* the float product x * (pct / 100), exact on the values the model draws
Percent(x, pct) == (x * pct) \div 100

----------------------------------------------------------------------------
(* RoomService *)

\* an occupy_room that takes a room whoever holds it
occupy_room_Overwrite(d, room_number, guest_id) ==
    IF room_number \notin DOMAIN d.rooms THEN Raise(d, "NotFoundError")
    ELSE Ok([d EXCEPT !.rooms[room_number].occupied = TRUE,
                      !.rooms[room_number].current_guest_id = Some(guest_id)])

\* occupy_room: NotFoundError, ConflictError or the committed store.  The
\* session's pending changes (those already in d) are committed with it.
occupy_room(d, room_number, guest_id) ==
    IF room_number \notin DOMAIN d.rooms THEN Raise(d, "NotFoundError")
    ELSE IF d.rooms[room_number].occupied THEN Raise(d, "ConflictError")
    ELSE Ok([d EXCEPT !.rooms[room_number].occupied = TRUE,
                      !.rooms[room_number].current_guest_id = Some(guest_id)])

vacate_room(d, room_number) ==
    IF room_number \notin DOMAIN d.rooms THEN Raise(d, "NotFoundError")
    ELSE IF ~d.rooms[room_number].occupied THEN Raise(d, "ConflictError")
    ELSE Ok([d EXCEPT !.rooms[room_number].occupied = FALSE,
                      !.rooms[room_number].current_guest_id = None])

\* create_room: a room number is used once; the new room is vacant
create_room(d, room_number, rate_per_night) ==
    IF room_number \in DOMAIN d.rooms THEN Raise(d, "ConflictError")
    ELSE Ok([d EXCEPT !.rooms = [n \in DOMAIN @ \cup {room_number} |->
                                    IF n = room_number THEN Room(rate_per_night) ELSE @[n]]])

\* update_room: every field the request sets is written to the room as it is
update_room(d, room_number, room_data) ==
    IF room_number \notin DOMAIN d.rooms THEN Raise(d, "NotFoundError")
    ELSE Ok([d EXCEPT
             !.rooms[room_number].occupied =
                 IF "occupied" \in room_data.fields THEN room_data.occupied ELSE @,
             !.rooms[room_number].current_guest_id =
                 IF "current_guest_id" \in room_data.fields THEN room_data.current_guest_id ELSE @])

----------------------------------------------------------------------------
(* BookingService: queries *)

\* get_booking: the lookup by id that every operation on a booking begins with
get_booking(d, booking_id) ==
    IF booking_id \in DOMAIN d.bookings THEN Ok(d) ELSE Raise(d, "NotFoundError")

get_line_items(d, booking_id) == {i \in DOMAIN d.line_items : d.line_items[i].booking_id = booking_id}

get_taxes(d, booking_id) == {i \in DOMAIN d.taxes : d.taxes[i].booking_id = booking_id}

get_discounts(d, booking_id) == {i \in DOMAIN d.discounts : d.discounts[i].booking_id = booking_id}

\* sum(row.amount for row in rows)
RECURSIVE SumAmount(_, _)
SumAmount(table, ids) ==
    IF ids = {} THEN 0
    ELSE LET i == CHOOSE x \in ids : TRUE
         IN table[i].amount + SumAmount(table, ids \ {i})

----------------------------------------------------------------------------
(* BookingService.recalculate_booking_totals *)

RecalcSubtotal(d, booking_id) == SumAmount(d.line_items, get_line_items(d, booking_id))

\* the taxes left at the amounts they were added with
RecalcTaxes_Frozen(d, booking_id, subtotal) == d.taxes

\* every tax of the booking is rewritten from the subtotal
RecalcTaxes(d, booking_id, subtotal) ==
    [t \in DOMAIN d.taxes |->
        IF d.taxes[t].booking_id = booking_id
        THEN [d.taxes[t] EXCEPT !.amount = Percent(subtotal, d.taxes[t].rate)]
        ELSE d.taxes[t]]

\* every discount rewritten from the subtotal, a missing percentage read as 0
RecalcDiscounts_RewriteAll(d, booking_id, subtotal) ==
    [x \in DOMAIN d.discounts |->
        IF d.discounts[x].booking_id = booking_id
        THEN [d.discounts[x] EXCEPT !.amount = Percent(subtotal, OrZero(d.discounts[x].percentage))]
        ELSE d.discounts[x]]

\* every percentage discount taken from the subtotal with the taxes added
RecalcDiscounts_AfterTax(d, booking_id, subtotal) ==
    [x \in DOMAIN d.discounts |->
        IF d.discounts[x].booking_id = booking_id /\ d.discounts[x].percentage # None
        THEN [d.discounts[x] EXCEPT !.amount =
                 Percent(subtotal + SumAmount(RecalcTaxes(d, booking_id, subtotal),
                                              get_taxes(d, booking_id)),
                         Val(d.discounts[x].percentage))]
        ELSE d.discounts[x]]

\* a discount with a percentage is rewritten from the subtotal, a fixed one is kept
RecalcDiscounts(d, booking_id, subtotal) ==
    [x \in DOMAIN d.discounts |->
        IF d.discounts[x].booking_id = booking_id /\ d.discounts[x].percentage # None
        THEN [d.discounts[x] EXCEPT !.amount = Percent(subtotal, Val(d.discounts[x].percentage))]
        ELSE d.discounts[x]]

\* the grand total with a floor at zero
GrandTotal_FlooredAtZero(subtotal, tax_total, discount_total) ==
    IF subtotal + tax_total - discount_total < 0 THEN 0
    ELSE subtotal + tax_total - discount_total

\* the grand total with the discounts left out
GrandTotal_WithoutDiscounts(subtotal, tax_total, discount_total) == subtotal + tax_total

GrandTotal(subtotal, tax_total, discount_total) == subtotal + tax_total - discount_total

recalculate_booking_totals(d, booking_id) ==
    IF booking_id \notin DOMAIN d.bookings THEN Raise(d, "NotFoundError")
    ELSE LET subtotal == RecalcSubtotal(d, booking_id)
             taxes == RecalcTaxes(d, booking_id, subtotal)
             tax_total == SumAmount(taxes, get_taxes(d, booking_id))
             discounts == RecalcDiscounts(d, booking_id, subtotal)
             discount_total == SumAmount(discounts, get_discounts(d, booking_id))
         IN Ok([d EXCEPT !.taxes = taxes,
                         !.discounts = discounts,
                         !.bookings[booking_id].subtotal = Some(subtotal),
                         !.bookings[booking_id].tax_total = Some(tax_total),
                         !.bookings[booking_id].discount_total = Some(discount_total),
                         !.bookings[booking_id].grand_total =
                             Some(GrandTotal(subtotal, tax_total, discount_total))])

----------------------------------------------------------------------------
(* BookingService: booking lifecycle *)

\* models.py Booking as create_booking builds it; the totals start as None
Booking(guest_id, room_number, price) ==
    [guest_id |-> guest_id, room_number |-> room_number,
     checkin_at |-> Some(get_current_time), checkout_at |-> None, price |-> price,
     subtotal |-> None, tax_total |-> None, discount_total |-> None, grand_total |-> None]

InvoiceLineItem(booking_id, quantity, unit_price, item_type) ==
    [booking_id |-> booking_id, quantity |-> quantity, unit_price |-> unit_price,
     amount |-> quantity * unit_price, item_type |-> item_type]

\* "booking_data.price or room.rate_per_night"
BookingPrice(price, rate_per_night) == IF Truthy(price) THEN price ELSE Some(rate_per_night)

\* create_booking up to its first commit: the booking row and the occupied room
create_booking_commit1(d, guest_id, room_number, price) ==
    [d EXCEPT !.bookings = Insert(@, NewId(@),
                  Booking(guest_id, room_number,
                          BookingPrice(price, d.rooms[room_number].rate_per_night))),
              !.rooms[room_number].occupied = TRUE,
              !.rooms[room_number].current_guest_id = Some(guest_id)]

\* create_booking from its first commit to its second: the room charge and the totals
create_booking_commit2(d, booking_id) ==
    [d EXCEPT !.line_items = Insert(@, NewId(@),
                  InvoiceLineItem(booking_id, 1, Val(d.bookings[booking_id].price), "room")),
              !.bookings[booking_id].subtotal = d.bookings[booking_id].price,
              !.bookings[booking_id].grand_total = d.bookings[booking_id].price]

\* the checks of create_booking with the test of room.occupied left out
create_booking_check_WithoutOccupiedTest(d, guest_id, room_number) ==
    IF guest_id \notin d.guests THEN "NotFoundError"
    ELSE IF room_number \notin DOMAIN d.rooms THEN "NotFoundError"
    ELSE "ok"

\* the checks create_booking makes before it writes: get_guest, get_room, room.occupied
create_booking_check(d, guest_id, room_number) ==
    IF guest_id \notin d.guests THEN "NotFoundError"
    ELSE IF room_number \notin DOMAIN d.rooms THEN "NotFoundError"
    ELSE IF d.rooms[room_number].occupied THEN "ConflictError"
    ELSE "ok"

create_booking(d, guest_id, room_number, price) ==
    IF create_booking_check(d, guest_id, room_number) # "ok"
    THEN Raise(d, create_booking_check(d, guest_id, room_number))
    ELSE Ok(create_booking_commit2(create_booking_commit1(d, guest_id, room_number, price),
                                   NewId(d.bookings)))

\* "for key, value in booking_data.dict(exclude_unset=True).items(): setattr(...)"
SetFields(booking, data) ==
    [booking EXCEPT !.checkout_at = IF "checkout_at" \in data.fields THEN data.checkout_at ELSE @,
                    !.price = IF "price" \in data.fields THEN data.price ELSE @]

\* update_booking: the fields are set before the "handle checkout" test reads the booking
update_booking(d, booking_id, data) ==
    IF booking_id \notin DOMAIN d.bookings THEN Raise(d, "NotFoundError")
    ELSE LET booking == SetFields(d.bookings[booking_id], data)
             pending == [d EXCEPT !.bookings[booking_id] = booking]
         IN IF data.checkout_at # None /\ booking.checkout_at = None
            THEN LET vacated == vacate_room(pending, booking.room_number)
                     duration == DaysOr1(Val(booking.checkout_at), Val(booking.checkin_at))
                     rate == vacated.db.rooms[booking.room_number].rate_per_night
                 IN IF vacated.result # "ok" THEN Raise(d, vacated.result)
                    ELSE IF ~Truthy(data.price) /\ ~Truthy(booking.price)
                    THEN Ok([vacated.db EXCEPT !.bookings[booking_id].price = Some(rate * duration)])
                    ELSE Ok(vacated.db)
            ELSE Ok(pending)

\* a checkin that does not test whether the booking is checked in
checkin_booking_WithoutCheckinTest(d, booking_id) ==
    IF booking_id \notin DOMAIN d.bookings THEN Raise(d, "NotFoundError")
    ELSE LET booking == d.bookings[booking_id]
             pending == [d EXCEPT !.bookings[booking_id].checkin_at = Some(get_current_time)]
             occupied == occupy_room(pending, booking.room_number, booking.guest_id)
         IN IF occupied.result # "ok" THEN Raise(d, occupied.result) ELSE Ok(occupied.db)

checkin_booking(d, booking_id) ==
    IF booking_id \notin DOMAIN d.bookings THEN Raise(d, "NotFoundError")
    ELSE IF d.bookings[booking_id].checkin_at # None THEN Raise(d, "ConflictError")
    ELSE LET booking == d.bookings[booking_id]
             pending == [d EXCEPT !.bookings[booking_id].checkin_at = Some(get_current_time)]
             occupied == occupy_room(pending, booking.room_number, booking.guest_id)
         IN IF occupied.result # "ok" THEN Raise(d, occupied.result) ELSE Ok(occupied.db)

\* "next((item for item in line_items if item.item_type == "room"), None)": rows come in id order
RoomItems(d, booking_id) == {i \in get_line_items(d, booking_id) : d.line_items[i].item_type = "room"}

FirstRoomItem(d, booking_id) == CHOOSE i \in RoomItems(d, booking_id) : \A j \in RoomItems(d, booking_id) : i <= j

\* the room charge for the whole stay
UpdateRoomItem(d, booking_id, duration) ==
    IF RoomItems(d, booking_id) = {} THEN d
    ELSE [d EXCEPT !.line_items[FirstRoomItem(d, booking_id)].quantity = duration,
                   !.line_items[FirstRoomItem(d, booking_id)].amount =
                       d.line_items[FirstRoomItem(d, booking_id)].unit_price * duration]

checkout_booking(d, booking_id) ==
    IF booking_id \notin DOMAIN d.bookings THEN Raise(d, "NotFoundError")
    ELSE IF d.bookings[booking_id].checkout_at # None THEN Raise(d, "ConflictError")
    ELSE LET booking == d.bookings[booking_id]
             duration == DaysOr1(get_current_time, Val(booking.checkin_at))
             pending == [d EXCEPT !.bookings[booking_id].checkout_at = Some(get_current_time)]
             vacated == vacate_room(pending, booking.room_number)
         IN IF vacated.result # "ok" THEN Raise(d, vacated.result)
            ELSE recalculate_booking_totals(UpdateRoomItem(vacated.db, booking_id, duration), booking_id)

delete_all_invoice_items(d, booking_id) ==
    [d EXCEPT !.line_items = Delete(@, get_line_items(d, booking_id)),
              !.taxes = Delete(@, get_taxes(d, booking_id)),
              !.discounts = Delete(@, get_discounts(d, booking_id))]

\* a deletion that a failed vacate_room stops
delete_booking_VacateFatal(d, booking_id) ==
    IF booking_id \notin DOMAIN d.bookings THEN Raise(d, "NotFoundError")
    ELSE LET booking == d.bookings[booking_id]
             vacated == IF booking.checkout_at = None
                        THEN vacate_room(d, booking.room_number)
                        ELSE Ok(d)
             cleared == delete_all_invoice_items(vacated.db, booking_id)
         IN IF vacated.result # "ok" THEN Raise(d, vacated.result)
            ELSE Ok([cleared EXCEPT !.bookings = Delete(@, {booking_id})])

\* a failed vacate_room is logged and the deletion goes on
delete_booking(d, booking_id) ==
    IF booking_id \notin DOMAIN d.bookings THEN Raise(d, "NotFoundError")
    ELSE LET booking == d.bookings[booking_id]
             vacated == IF booking.checkout_at = None
                        THEN vacate_room(d, booking.room_number).db
                        ELSE d
             cleared == delete_all_invoice_items(vacated, booking_id)
         IN Ok([cleared EXCEPT !.bookings = Delete(@, {booking_id})])

----------------------------------------------------------------------------
(* BookingService: line items *)

\* add_invoice_item up to its commit: the row is inserted whatever booking_id is
add_invoice_item_commit(d, booking_id, quantity, unit_price, item_type) ==
    [d EXCEPT !.line_items = Insert(@, NewId(@),
                  InvoiceLineItem(booking_id, quantity, unit_price, item_type))]

\* the row is committed before recalculate_booking_totals looks the booking up
add_invoice_item(d, booking_id, quantity, unit_price, item_type) ==
    recalculate_booking_totals(
        add_invoice_item_commit(d, booking_id, quantity, unit_price, item_type), booking_id)

\* the room charge is protected by the checkout state of the booking named in the call
remove_invoice_item(d, booking_id, item_id) ==
    IF item_id \notin DOMAIN d.line_items THEN Raise(d, "NotFoundError")
    ELSE IF booking_id \notin DOMAIN d.bookings THEN Raise(d, "NotFoundError")
    ELSE IF d.line_items[item_id].item_type = "room" /\ d.bookings[booking_id].checkout_at = None
    THEN Raise(d, "BadRequestError")
    ELSE recalculate_booking_totals([d EXCEPT !.line_items = Delete(@, {item_id})], booking_id)

add_line_item(d, booking_id, quantity, unit_price, item_type) ==
    IF booking_id \notin DOMAIN d.bookings THEN Raise(d, "NotFoundError")
    ELSE recalculate_booking_totals(
             [d EXCEPT !.line_items = Insert(@, NewId(@),
                           InvoiceLineItem(booking_id, quantity, unit_price, item_type))],
             booking_id)

delete_line_item(d, line_item_id) ==
    IF line_item_id \notin DOMAIN d.line_items THEN Raise(d, "NotFoundError")
    ELSE LET booking_id == d.line_items[line_item_id].booking_id
         IN IF booking_id \notin DOMAIN d.bookings THEN Raise(d, "NotFoundError")
            ELSE IF d.line_items[line_item_id].item_type = "room"
                    /\ d.bookings[booking_id].checkout_at = None
            THEN Raise(d, "BadRequestError")
            ELSE recalculate_booking_totals(
                     [d EXCEPT !.line_items = Delete(@, {line_item_id})], booking_id)

----------------------------------------------------------------------------
(* BookingService: taxes.  The class defines add_tax and add_discount twice; *)
(* the later definition of each is the method the class has.                 *)

InvoiceTax(booking_id, rate, amount) == [booking_id |-> booking_id, rate |-> rate, amount |-> amount]

\* "if not booking.subtotal: recalculate": the store the amounts are first computed from
WithSubtotal(d, booking_id) ==
    IF ~Truthy(d.bookings[booking_id].subtotal)
    THEN recalculate_booking_totals(d, booking_id).db
    ELSE d

add_tax(d, booking_id, rate) ==
    IF booking_id \notin DOMAIN d.bookings THEN Raise(d, "NotFoundError")
    ELSE LET d1 == WithSubtotal(d, booking_id)
             tax_amount == Percent(Val(d1.bookings[booking_id].subtotal), rate)
         IN recalculate_booking_totals(
                [d1 EXCEPT !.taxes = Insert(@, NewId(@), InvoiceTax(booking_id, rate, tax_amount))],
                booking_id)

\* remove_tax recalculates the booking named in the call, after the delete is committed
remove_tax(d, booking_id, tax_id) ==
    IF tax_id \notin DOMAIN d.taxes THEN Raise(d, "NotFoundError")
    ELSE recalculate_booking_totals([d EXCEPT !.taxes = Delete(@, {tax_id})], booking_id)

delete_tax(d, tax_id) ==
    IF tax_id \notin DOMAIN d.taxes THEN Raise(d, "NotFoundError")
    ELSE recalculate_booking_totals([d EXCEPT !.taxes = Delete(@, {tax_id})],
                                    d.taxes[tax_id].booking_id)

----------------------------------------------------------------------------
(* BookingService: discounts *)

InvoiceDiscount(booking_id, amount, percentage) ==
    [booking_id |-> booking_id, amount |-> amount, percentage |-> percentage]

\* a percentage, when given, decides the amount; else "amount or 0"
DiscountAmount(subtotal, amount, percentage) ==
    IF percentage # None THEN Percent(subtotal, Val(percentage)) ELSE OrZero(amount)

add_discount(d, booking_id, amount, percentage) ==
    IF amount = None /\ percentage = None THEN Raise(d, "BadRequestError")
    ELSE IF booking_id \notin DOMAIN d.bookings THEN Raise(d, "NotFoundError")
    ELSE LET d1 == WithSubtotal(d, booking_id)
             discount_amount == DiscountAmount(Val(d1.bookings[booking_id].subtotal), amount, percentage)
         IN recalculate_booking_totals(
                [d1 EXCEPT !.discounts = Insert(@, NewId(@),
                               InvoiceDiscount(booking_id, discount_amount, percentage))],
                booking_id)

remove_discount(d, booking_id, discount_id) ==
    IF discount_id \notin DOMAIN d.discounts THEN Raise(d, "NotFoundError")
    ELSE recalculate_booking_totals([d EXCEPT !.discounts = Delete(@, {discount_id})], booking_id)

delete_discount(d, discount_id) ==
    IF discount_id \notin DOMAIN d.discounts THEN Raise(d, "NotFoundError")
    ELSE recalculate_booking_totals([d EXCEPT !.discounts = Delete(@, {discount_id})],
                                    d.discounts[discount_id].booking_id)

----------------------------------------------------------------------------
(* TaskService *)

\* the primary keys of the task rows, and the task_id (a uuid4 string) of each
TaskIds == {1, 2}
Uuid(id) == <<"uuid", id>>

\* the strings a caller names a task by: the digits of the row's primary key
\* or its task_id
RowKey(id) == <<"id", id>>
TaskKeys == {RowKey(id) : id \in TaskIds} \cup {Uuid(id) : id \in TaskIds}

\* models.py BackgroundTask as create_task builds it
BackgroundTask(id) == [task_id |-> Uuid(id), status |-> "pending"]

create_task(d) == Ok([d EXCEPT !.tasks = Insert(@, NewId(@), BackgroundTask(NewId(@)))])

\* get_task is session.get(BackgroundTask, key): a lookup by the primary key
\* id, so it finds a row for the digits of the row's id and none for a task_id
Found(d, key) == key[1] = "id" /\ key[2] \in DOMAIN d.tasks
get_task(d, key) == IF Found(d, key) THEN Some(d.tasks[key[2]]) ELSE None

update_task_status(d, key, status) ==
    IF get_task(d, key) = None THEN Raise(d, "ValueError")
    ELSE Ok([d EXCEPT !.tasks[key[2]].status = status])

\* how the work of a task ends: it returns a result or it raises
TaskOutcomes == {"completed", "failed"}

\* execute_task to its end: a task that is not pending is returned as it is; a
\* pending one is committed as running, worked on and committed as completed
\* or failed
execute_task(d, key, outcome) ==
    IF get_task(d, key) = None THEN Raise(d, "ValueError")
    ELSE IF Val(get_task(d, key)).status # "pending" THEN Ok(d)
    ELSE update_task_status(update_task_status(d, key, "running").db, key, outcome)

retry_failed_task(d, key) ==
    IF get_task(d, key) = None THEN Raise(d, "ValueError")
    ELSE IF Val(get_task(d, key)).status # "failed" THEN Raise(d, "ValueError")
    ELSE Ok([d EXCEPT !.tasks[key[2]].status = "pending"])

\* process_pending_tasks: the pending tasks are executed in order, each named
\* by its task_id; an exception of execute_task ends the batch
RECURSIVE ExecuteAll(_, _, _)
ExecuteAll(d, ids, outcome) ==
    IF ids = {} THEN Ok(d)
    ELSE LET id == CHOOSE i \in ids : \A j \in ids : i <= j
             r == execute_task(d, d.tasks[id].task_id, outcome)
         IN IF r.result # "ok" THEN r ELSE ExecuteAll(r.db, ids \ {id}, outcome)

process_pending_tasks(d, outcome) ==
    ExecuteAll(d, {id \in DOMAIN d.tasks : d.tasks[id].status = "pending"}, outcome)

----------------------------------------------------------------------------
(* api/bookings.py: the endpoints that notify the guest *)

\* how the notification block of an endpoint ends: the email is sent, the
\* email service reports that it is not (or the guest has no address), or the
\* block raises
EmailOutcomes == {"sent", "not_sent", "raised"}

\* send_booking_confirmation and send_invoice read the booking and its invoice
\* and write nothing to the store
send_email(d, outcome) == IF outcome = "raised" THEN Raise(d, "Exception") ELSE Ok(d)

\* a create endpoint that fails when the confirmation email cannot be sent
create_booking_endpoint_EmailFatal(d, guest_id, room_number, price, outcome) ==
    LET created == create_booking(d, guest_id, room_number, price)
    IN IF created.result # "ok" THEN created ELSE send_email(created.db, outcome)

\* POST /bookings: "Log error but don't fail the booking creation"
create_booking_endpoint(d, guest_id, room_number, price, outcome) ==
    LET created == create_booking(d, guest_id, room_number, price)
    IN IF created.result # "ok" THEN created ELSE Ok(send_email(created.db, outcome).db)

\* POST /bookings/{id}/checkout: "Log error but don't fail the checkout process"
checkout_booking_endpoint(d, booking_id, outcome) ==
    LET done == checkout_booking(d, booking_id)
    IN IF done.result # "ok" THEN done ELSE Ok(send_email(done.db, outcome).db)

----------------------------------------------------------------------------
(* Requests *)

\* a booking is created with its room charge, so at most half of the store is bookings
BookingIds == 1..((MaxStore + 1) \div 2)
RowIds == 1..(MaxStore - 1)

\* the guests and rooms a request names: those of the store, one that is not
\* there, and a room that is there once an administrator has created it
RequestedGuests == GuestIds \cup {9}
RequestedRooms == RoomNumbers \cup {102, 999}

StoreSize(d) ==
    Cardinality(DOMAIN d.bookings) + Cardinality(DOMAIN d.line_items)
        + Cardinality(DOMAIN d.taxes) + Cardinality(DOMAIN d.discounts)

\* the store has room for n more rows, the new one of them in this table
Fits(n, table, ids) == StoreSize(db) + n <= MaxStore /\ NewId(table) \in ids

Prices == {None, Some(0), Some(800)}
Quantities == {2}
UnitPrices == {100}
ItemTypes == {"room", "service"}
TaxRates == {18}
DiscountInputs == {<<None, None>>, <<Some(50), None>>, <<None, Some(10)>>, <<Some(50), Some(10)>>}

\* schemas.py BookingUpdate: the fields the request sets, and their values
BookingUpdates ==
    {[fields |-> f, checkout_at |-> c, price |-> p] :
        f \in SUBSET {"checkout_at", "price"}, c \in {None, Some(now)}, p \in {None, Some(800)}}

ValidUpdate(data) ==
    /\ ("checkout_at" \notin data.fields => data.checkout_at = None)
    /\ ("price" \notin data.fields => data.price = None)

\* RoomUpdate requests: the fields the request sets (exclude_unset) and their values
RoomUpdates ==
    {[fields |-> f, occupied |-> o, current_guest_id |-> g] :
        f \in SUBSET {"occupied", "current_guest_id"}, o \in BOOLEAN,
        g \in {None} \cup {Some(x) : x \in GuestIds}}

ValidRoomUpdate(room_data) ==
    /\ ("occupied" \notin room_data.fields => room_data.occupied = FALSE)
    /\ ("current_guest_id" \notin room_data.fields => room_data.current_guest_id = None)

\* the room numbers a create_room request names: a seeded one and a new one
NewRoomNumbers == RequestedRooms \ {999}

NoCall == [op |-> "none", result |-> "none"]

\* worker processes that serve requests from one database
Procs == {1, 2}
Idle == [p \in Procs |-> "idle"]

\* what a request in progress holds in memory: its arguments, the id of the
\* booking it works on and the rows its session has read
Frame(op, result, args, booking_id, read) ==
    [op |-> op, result |-> result, args |-> args, booking_id |-> booking_id, read |-> read]

NoLoc == [p \in Procs |-> Frame("none", "none", <<>>, 0, None)]

Init ==
    /\ db = InitDb
    /\ now = 0
    /\ last = NoCall
    /\ pc = Idle
    /\ loc = NoLoc
    /\ started = 0
    /\ checked_out = {}

\* last keeps the latest call that wrote to the store, and how it ended
Audit(r, op) == IF r.db # db THEN [op |-> op, result |-> r.result] ELSE last

\* a request that runs to its end alone: its commits are in the store
\* the bookings on which op, run on the store db with outcome r, is a checkout
\* that succeeded: checkout_at was null and the call set it
CheckedOutBy(r, op) ==
    {b \in DOMAIN db.bookings \cap DOMAIN r.db.bookings :
        /\ op = "checkout_booking"
        /\ r.result = "ok"
        /\ db.bookings[b].checkout_at = None
        /\ r.db.bookings[b].checkout_at # None}

\* a request that runs to its end alone: its commits are in the store;
\* checked_out is the history of the bookings of the store: those on which a
\* checkout_booking call has succeeded
Done(r, op) ==
    /\ db' = r.db
    /\ last' = Audit(r, op)
    /\ checked_out' = (checked_out \cap DOMAIN r.db.bookings) \cup CheckedOutBy(r, op)

Tick ==
    /\ now < MaxDay
    /\ now' = now + 1
    /\ UNCHANGED <<db, last, pc, loc, started, checked_out>>

CreateBooking ==
    \E g \in RequestedGuests, r \in RequestedRooms, p \in Prices, outcome \in EmailOutcomes :
        /\ Fits(2, db.bookings, BookingIds)
        /\ NewId(db.line_items) \in RowIds
        /\ Done(create_booking_endpoint(db, g, r, p, outcome), "create_booking")
        /\ UNCHANGED <<now, pc, loc, started>>

UpdateBooking ==
    \E b \in BookingIds, data \in BookingUpdates :
        /\ ValidUpdate(data)
        /\ Done(update_booking(db, b, data), "update_booking")
        /\ UNCHANGED <<now, pc, loc, started>>

CheckinBooking ==
    \E b \in BookingIds :
        /\ Done(checkin_booking(db, b), "checkin_booking")
        /\ UNCHANGED <<now, pc, loc, started>>

CheckoutBooking ==
    \E b \in BookingIds, outcome \in EmailOutcomes :
        /\ Done(checkout_booking_endpoint(db, b, outcome), "checkout_booking")
        /\ UNCHANGED <<now, pc, loc, started>>

DeleteBooking ==
    \E b \in BookingIds :
        /\ Done(delete_booking(db, b), "delete_booking")
        /\ UNCHANGED <<now, pc, loc, started>>

AddInvoiceItem ==
    \E b \in BookingIds, q \in Quantities, u \in UnitPrices, t \in ItemTypes :
        /\ Fits(1, db.line_items, RowIds)
        /\ Done(add_invoice_item(db, b, q, u, t), "add_invoice_item")
        /\ UNCHANGED <<now, pc, loc, started>>

RemoveInvoiceItem ==
    \E b \in BookingIds, i \in RowIds :
        /\ Done(remove_invoice_item(db, b, i), "remove_invoice_item")
        /\ UNCHANGED <<now, pc, loc, started>>

AddLineItem ==
    \E b \in BookingIds, q \in Quantities, u \in UnitPrices, t \in ItemTypes :
        /\ Fits(1, db.line_items, RowIds)
        /\ Done(add_line_item(db, b, q, u, t), "add_line_item")
        /\ UNCHANGED <<now, pc, loc, started>>

DeleteLineItem ==
    \E i \in RowIds :
        /\ Done(delete_line_item(db, i), "delete_line_item")
        /\ UNCHANGED <<now, pc, loc, started>>

AddTax ==
    \E b \in BookingIds, rate \in TaxRates :
        /\ Fits(1, db.taxes, RowIds)
        /\ Done(add_tax(db, b, rate), "add_tax")
        /\ UNCHANGED <<now, pc, loc, started>>

RemoveTax ==
    \E b \in BookingIds, t \in RowIds :
        /\ Done(remove_tax(db, b, t), "remove_tax")
        /\ UNCHANGED <<now, pc, loc, started>>

DeleteTax ==
    \E t \in RowIds :
        /\ Done(delete_tax(db, t), "delete_tax")
        /\ UNCHANGED <<now, pc, loc, started>>

AddDiscount ==
    \E b \in BookingIds, x \in DiscountInputs :
        /\ Fits(1, db.discounts, RowIds)
        /\ Done(add_discount(db, b, x[1], x[2]), "add_discount")
        /\ UNCHANGED <<now, pc, loc, started>>

RemoveDiscount ==
    \E b \in BookingIds, x \in RowIds :
        /\ Done(remove_discount(db, b, x), "remove_discount")
        /\ UNCHANGED <<now, pc, loc, started>>

DeleteDiscount ==
    \E x \in RowIds :
        /\ Done(delete_discount(db, x), "delete_discount")
        /\ UNCHANGED <<now, pc, loc, started>>

----------------------------------------------------------------------------
(* Requests served by several worker processes.  A step is what a request    *)
(* does between two commits, or the reads it makes before its first write:   *)
(* the sessions of two processes see each other's commits and nothing else.  *)

\* the unit of work flushes the columns a request changed on the rows it read
\* (recalculate_booking_totals: session.add(tax), session.add(discount),
\* session.add(booking), session.commit())
CommitChanges(cur, read, written, booking_id) ==
    [cur EXCEPT
        !.bookings = [b \in DOMAIN @ |->
            IF b = booking_id /\ b \in DOMAIN read.bookings
            THEN [col \in DOMAIN @[b] |->
                     IF written.bookings[b][col] # read.bookings[b][col]
                     THEN written.bookings[b][col] ELSE @[b][col]]
            ELSE @[b]],
        !.taxes = [t \in DOMAIN @ |->
            IF t \in DOMAIN read.taxes /\ written.taxes[t] # read.taxes[t]
            THEN written.taxes[t] ELSE @[t]],
        !.discounts = [x \in DOMAIN @ |->
            IF x \in DOMAIN read.discounts /\ written.discounts[x] # read.discounts[x]
            THEN written.discounts[x] ELSE @[x]]]

\* the background job a worker runs once its response is sent
Job(op, key) == Frame(op, "scheduled", <<key>>, 0, None)

Schedule(p, job) ==
    /\ pc' = [pc EXCEPT ![p] = "background"]
    /\ loc' = [loc EXCEPT ![p] = job]

\* POST /system/backup: the task is created and execute_task scheduled with its task_id
SubmitTask(p) ==
    /\ pc[p] = "idle"
    /\ NewId(db.tasks) \in TaskIds
    /\ db' = create_task(db).db
    /\ Schedule(p, Job("execute_task", Uuid(NewId(db.tasks))))
    /\ UNCHANGED <<now, last, started, checked_out>>

\* POST /tasks/{task_id}/execute: execute_task is scheduled and then the task
\* is marked running
ExecuteTaskEndpoint(p) ==
    /\ pc[p] = "idle"
    /\ \E key \in TaskKeys :
           IF get_task(db, key) = None \/ Val(get_task(db, key)).status # "pending"
           THEN UNCHANGED <<db, pc, loc>>
           ELSE /\ db' = update_task_status(db, key, "running").db
                /\ Schedule(p, Job("execute_task", key))
    /\ UNCHANGED <<now, last, started, checked_out>>

\* POST /tasks/{task_id}/retry: a failed task is reset and execute_task scheduled
RetryTaskEndpoint(p) ==
    /\ pc[p] = "idle"
    /\ \E key \in TaskKeys :
           LET r == retry_failed_task(db, key)
           IN IF r.result # "ok" THEN UNCHANGED <<db, pc, loc>>
              ELSE db' = r.db /\ Schedule(p, Job("execute_task", key))
    /\ UNCHANGED <<now, last, started, checked_out>>

\* POST /tasks/process-pending: the batch is scheduled
ProcessPendingEndpoint(p) ==
    /\ pc[p] = "idle"
    /\ Schedule(p, Job("process_pending_tasks", <<"limit", 10>>))
    /\ UNCHANGED <<db, now, last, started, checked_out>>

\* the scheduled job runs to its end; what it raises is logged by the server
Background(p) ==
    /\ pc[p] = "background"
    /\ \E outcome \in TaskOutcomes :
           db' = IF loc[p].op = "execute_task"
                 THEN execute_task(db, loc[p].args[1], outcome).db
                 ELSE process_pending_tasks(db, outcome).db
    /\ pc' = [pc EXCEPT ![p] = "idle"]
    /\ loc' = [loc EXCEPT ![p] = NoLoc[p]]
    /\ UNCHANGED <<now, last, started, checked_out>>

\* create_booking, lines 22-28: the guest and the room are read and the room tested
BeginCreateBooking(p) ==
    /\ pc[p] = "idle"
    /\ started < MaxRequests
    /\ \E g \in GuestIds, r \in RoomNumbers :
           LET checked == create_booking_check(db, g, r)
           IN /\ pc' = [pc EXCEPT ![p] = IF checked = "ok" THEN "create_commit1" ELSE "idle"]
              /\ loc' = [loc EXCEPT ![p] =
                            Frame("create_booking", IF checked = "ok" THEN "running" ELSE checked,
                                  <<g, r, None>>, 0, None)]
    /\ started' = started + 1
    /\ UNCHANGED <<db, now, last, checked_out>>

\* create_booking, lines 31-53: the booking and the occupied room are committed
CreateCommit1(p) ==
    /\ pc[p] = "create_commit1"
    /\ db' = create_booking_commit1(db, loc[p].args[1], loc[p].args[2], loc[p].args[3])
    /\ pc' = [pc EXCEPT ![p] = "create_commit2"]
    /\ loc' = [loc EXCEPT ![p].booking_id = NewId(db.bookings)]
    /\ UNCHANGED <<now, last, started, checked_out>>

\* create_booking, lines 55-75: the room charge and the totals are committed
CreateCommit2(p) ==
    /\ pc[p] = "create_commit2"
    /\ db' = create_booking_commit2(db, loc[p].booking_id)
    /\ pc' = [pc EXCEPT ![p] = "idle"]
    /\ loc' = [loc EXCEPT ![p].result = "ok"]
    /\ UNCHANGED <<now, last, started, checked_out>>

\* add_invoice_item, lines 269-280: the line item is committed
BeginAddInvoiceItem(p) ==
    /\ pc[p] = "idle"
    /\ started < MaxRequests
    /\ \E b \in BookingIds, q \in Quantities, u \in UnitPrices :
           /\ db' = add_invoice_item_commit(db, b, q, u, "service")
           /\ loc' = [loc EXCEPT ![p] = Frame("add_invoice_item", "running", <<b, q, u>>, b, None)]
    /\ pc' = [pc EXCEPT ![p] = "recalculate_read"]
    /\ started' = started + 1
    /\ UNCHANGED <<now, last, checked_out>>

\* recalculate_booking_totals, lines 588-612: the booking and its rows are read
RecalculateRead(p) ==
    /\ pc[p] = "recalculate_read"
    /\ IF loc[p].booking_id \in DOMAIN db.bookings
       THEN /\ pc' = [pc EXCEPT ![p] = "recalculate_write"]
            /\ loc' = [loc EXCEPT ![p].read = Some(db)]
       ELSE /\ pc' = [pc EXCEPT ![p] = "idle"]
            /\ loc' = [loc EXCEPT ![p].result = "NotFoundError"]
    /\ UNCHANGED <<db, now, last, started, checked_out>>

\* recalculate_booking_totals, lines 614-625: the totals computed from the rows read are committed
RecalculateWrite(p) ==
    /\ pc[p] = "recalculate_write"
    /\ db' = CommitChanges(db, Val(loc[p].read),
                           recalculate_booking_totals(Val(loc[p].read), loc[p].booking_id).db,
                           loc[p].booking_id)
    /\ pc' = [pc EXCEPT ![p] = "idle"]
    /\ loc' = [loc EXCEPT ![p].result = "ok", ![p].read = None]
    /\ UNCHANGED <<now, last, started, checked_out>>

----------------------------------------------------------------------------
(* Specifications *)

\* the booking lifecycle with the clock, and the charges added during a stay
CreateRoom ==
    \E n \in NewRoomNumbers :
        /\ Done(create_room(db, n, StandardRate), "create_room")
        /\ UNCHANGED <<now, pc, loc, started>>

UpdateRoom ==
    \E n \in RequestedRooms, room_data \in RoomUpdates :
        /\ ValidRoomUpdate(room_data)
        /\ Done(update_room(db, n, room_data), "update_room")
        /\ UNCHANGED <<now, pc, loc, started>>

Next ==
    \/ Tick
    \/ CreateBooking
    \/ UpdateBooking
    \/ CheckinBooking
    \/ CheckoutBooking
    \/ DeleteBooking
    \/ AddInvoiceItem
    \/ AddTax
    \/ AddDiscount

Spec == Init /\ [][Next]_vars

\* invoice editing: every operation that adds or removes invoice rows, on bookings
\* that are created, checked out and deleted
NextInvoice ==
    \/ CreateBooking
    \/ CheckoutBooking
    \/ DeleteBooking
    \/ AddInvoiceItem
    \/ RemoveInvoiceItem
    \/ AddLineItem
    \/ DeleteLineItem
    \/ AddTax
    \/ RemoveTax
    \/ DeleteTax
    \/ AddDiscount
    \/ RemoveDiscount
    \/ DeleteDiscount

SpecInvoice == Init /\ [][NextInvoice]_vars

\* the building of invoices: bookings are created, checked out and deleted, and
\* charges, taxes and discounts are added to them; taxes and discounts are
\* taken off again
NextAdds ==
    \/ CreateBooking
    \/ CheckoutBooking
    \/ DeleteBooking
    \/ AddInvoiceItem
    \/ AddLineItem
    \/ AddTax
    \/ AddDiscount
    \/ RemoveTax
    \/ RemoveDiscount

SpecAdds == Init /\ [][NextAdds]_vars

\* the life of bookings without the clock: bookings are created, updated,
\* checked out, stripped of charges and deleted
NextLifecycle ==
    \/ CreateBooking
    \/ UpdateBooking
    \/ CheckinBooking
    \/ CheckoutBooking
    \/ DeleteBooking
    \/ RemoveInvoiceItem

SpecLifecycle == Init /\ [][NextLifecycle]_vars

\* the room registry: rooms are created and updated by an administrator while
\* bookings occupy and vacate them
NextRooms ==
    \/ CreateRoom
    \/ UpdateRoom
    \/ CreateBooking
    \/ CheckoutBooking
    \/ DeleteBooking

SpecRooms == Init /\ [][NextRooms]_vars

\* background tasks: requests that create, execute and retry tasks, and the
\* jobs the workers run after their responses
NextTasks ==
    \E p \in Procs :
        \/ SubmitTask(p)
        \/ ExecuteTaskEndpoint(p)
        \/ RetryTaskEndpoint(p)
        \/ ProcessPendingEndpoint(p)
        \/ Background(p)

SpecTasks == Init /\ [][NextTasks]_vars

\* Starlette runs the background tasks of a response once the response is sent,
\* and a job that has started runs to its end
TasksFairness == \A p \in Procs : WF_vars(Background(p))

SpecTasksFair == SpecTasks /\ TasksFairness

\* creates and added charges of several worker processes, step by step
NextSteps ==
    \E p \in Procs :
        \/ BeginCreateBooking(p)
        \/ CreateCommit1(p)
        \/ CreateCommit2(p)
        \/ BeginAddInvoiceItem(p)
        \/ RecalculateRead(p)
        \/ RecalculateWrite(p)

SpecSteps == Init /\ [][NextSteps]_vars

----------------------------------------------------------------------------
(* Properties *)

\* the bookings of a room that are not checked out
ActiveBookings(d, room_number) ==
    {b \in DOMAIN d.bookings :
        d.bookings[b].room_number = room_number /\ d.bookings[b].checkout_at = None}

\* C1: room exclusivity.  After any sequence of completed booking operations
\* every occupied room is referenced by exactly one active booking and every
\* room that is not occupied by none.
C1_RoomExclusivity ==
    \A r \in DOMAIN db.rooms :
        IF db.rooms[r].occupied
        THEN Cardinality(ActiveBookings(db, r)) = 1
        ELSE ActiveBookings(db, r) = {}

\* recalculate_booking_totals alone writes tax_total: a booking that has one
\* has had its totals recalculated at least once
Recalculated(d, booking_id) == d.bookings[booking_id].tax_total # None

\* C2: subtotal invariant.  When no operation is in progress, every booking
\* whose totals have been recalculated at least once has subtotal equal to the
\* sum of the amounts of the line items that belong to it now.
C2_SubtotalIsSumOfLineItems ==
    \A b \in DOMAIN db.bookings :
        Recalculated(db, b) =>
            db.bookings[b].subtotal = Some(SumAmount(db.line_items, get_line_items(db, b)))

\* a stored total, a null one read as 0
NullAsZero(o) == IF o = None THEN 0 ELSE Val(o)

\* C3: grand-total invariant.  In every persisted state, every booking whose
\* totals have been computed has grand_total = subtotal + tax_total -
\* discount_total exactly, a null tax_total or discount_total read as 0.
C3_GrandTotal ==
    \A b \in DOMAIN db.bookings :
        db.bookings[b].grand_total # None =>
            /\ db.bookings[b].subtotal # None
            /\ Val(db.bookings[b].grand_total) =
                   Val(db.bookings[b].subtotal) + NullAsZero(db.bookings[b].tax_total)
                       - NullAsZero(db.bookings[b].discount_total)

\* a booking whose recalculated totals carry a discount
C3_Witness ==
    \E b \in DOMAIN db.bookings :
        /\ Recalculated(db, b)
        /\ Val(db.bookings[b].discount_total) > 0
        /\ Val(db.bookings[b].grand_total) < Val(db.bookings[b].subtotal)

\* C4: concurrent creates on one room.  When the steps of two create_booking
\* calls for the same unoccupied room interleave, at most one of them succeeds,
\* and the room never has two active bookings.
C4_ConcurrentCreates ==
    /\ \A r \in DOMAIN db.rooms : Cardinality(ActiveBookings(db, r)) <= 1
    /\ \A p, q \in Procs :
           (/\ p # q
            /\ loc[p].op = "create_booking" /\ loc[q].op = "create_booking"
            /\ loc[p].result = "ok" /\ loc[q].result = "ok")
               => loc[p].args[2] # loc[q].args[2]

\* the totals recalculate_booking_totals computes from the rows of the store
TotalsOf(d, booking_id) ==
    LET r == recalculate_booking_totals(d, booking_id).db.bookings[booking_id]
    IN <<r.subtotal, r.tax_total, r.discount_total, r.grand_total>>

\* C5: concurrent mutations of one booking are serialized with recalculation.
\* After the add operations that two processes run on the same booking have
\* both returned, its stored subtotal, tax_total, discount_total and grand_total are the values
\* computed from the full final set of rows.
C5_SerializedRecalculation ==
    \A b \in DOMAIN db.bookings :
        (\A p \in Procs :
             /\ pc[p] = "idle"
             /\ loc[p].op = "add_invoice_item" /\ loc[p].booking_id = b /\ loc[p].result = "ok")
            => <<db.bookings[b].subtotal, db.bookings[b].tax_total,
                 db.bookings[b].discount_total, db.bookings[b].grand_total>> = TotalsOf(db, b)

\* C6: create_booking is one atomic unit of work.  No committed state holds only
\* a part of its effect: a booking row in the store has its "room" line item and
\* its subtotal and grand_total, and its room is marked occupied by its guest.
C6_CreateIsAtomic ==
    \A b \in DOMAIN db.bookings :
        /\ RoomItems(db, b) # {}
        /\ db.bookings[b].subtotal # None
        /\ db.bookings[b].grand_total # None
        /\ db.rooms[db.bookings[b].room_number].occupied

\* C7: failure leaves state unchanged.  A create, checkin, checkout or add/remove
\* of a line item, tax or discount that returns an error has written nothing:
\* the latest of these calls that changed the store returned without error.
C7_FailureLeavesStateUnchanged ==
    last.op \in {"create_booking", "checkin_booking", "checkout_booking",
                 "add_invoice_item", "remove_invoice_item", "add_tax", "remove_tax",
                 "add_discount", "remove_discount"}
        => last.result = "ok"

\* the rows an operation added to a table
NewRows(before, after) == DOMAIN after \ DOMAIN before

\* C8: effect of create.  For an existing guest and an existing unoccupied room
\* create_booking marks the room occupied by the guest, creates a booking with
\* checkin_at set, checkout_at null and price = the supplied price or else the
\* room's nightly rate, inserts exactly one "room" line item with quantity 1 and
\* amount = price, and sets subtotal = grand_total = price.
C8_EffectOfCreate ==
    \A g \in GuestIds, r \in DOMAIN db.rooms, p \in Prices :
        ~db.rooms[r].occupied =>
            LET res == create_booking(db, g, r, p)
                price == IF p # None THEN Val(p) ELSE db.rooms[r].rate_per_night
                b == NewId(db.bookings)
            IN /\ res.result = "ok"
               /\ res.db.rooms[r].occupied
               /\ res.db.rooms[r].current_guest_id = Some(g)
               /\ NewRows(db.bookings, res.db.bookings) = {b}
               /\ res.db.bookings[b].guest_id = g
               /\ res.db.bookings[b].room_number = r
               /\ res.db.bookings[b].checkin_at = Some(now)
               /\ res.db.bookings[b].checkout_at = None
               /\ res.db.bookings[b].price = Some(price)
               /\ \E i \in DOMAIN res.db.line_items :
                      /\ NewRows(db.line_items, res.db.line_items) = {i}
                      /\ res.db.line_items[i] = InvoiceLineItem(b, 1, price, "room")
               /\ res.db.bookings[b].subtotal = Some(price)
               /\ res.db.bookings[b].grand_total = Some(price)

\* what create_booking may not touch when it fails
SameBookingsItemsRooms(d, e) ==
    /\ e.bookings = d.bookings
    /\ e.line_items = d.line_items
    /\ e.rooms = d.rooms

\* C9: create preconditions.  create_booking fails with NotFoundError if the
\* guest or the room does not exist and with ConflictError if the room (of an
\* existing guest's request) is already occupied; in each case no booking and no
\* line item is created and the room's occupied flag and guest are unchanged.
C9_CreatePreconditions ==
    \A g \in RequestedGuests, r \in RequestedRooms, p \in Prices :
        LET res == create_booking(db, g, r, p)
        IN /\ (g \notin db.guests \/ r \notin DOMAIN db.rooms) =>
                  res.result = "NotFoundError" /\ SameBookingsItemsRooms(db, res.db)
           /\ (g \in db.guests /\ r \in DOMAIN db.rooms /\ db.rooms[r].occupied) =>
                  res.result = "ConflictError" /\ SameBookingsItemsRooms(db, res.db)

\* room 101 is occupied by a booking and a second create_booking on it is refused
C9_Witness ==
    /\ db.rooms[101].occupied
    /\ ActiveBookings(db, 101) # {}
    /\ create_booking(db, 1, 101, None).result = "ConflictError"
    /\ create_booking(db, 9, 101, None).result = "NotFoundError"

\* max(1, n)
Max1(n) == IF n < 1 THEN 1 ELSE n

\* C10: effect of checkout.  checkout_booking on an active booking sets
\* checkout_at, vacates the room, sets the booking's "room" line item to
\* quantity = duration and amount = unit_price * duration, where duration =
\* max(1, whole days between checkin_at and now), and leaves the totals
\* recalculated from the updated line items.
C10_EffectOfCheckout ==
    \A b \in DOMAIN db.bookings :
        db.bookings[b].checkout_at = None =>
            LET res == checkout_booking(db, b)
                room_number == db.bookings[b].room_number
                duration == Max1(now - Val(db.bookings[b].checkin_at))
            IN /\ res.result = "ok"
               /\ res.db.bookings[b].checkout_at = Some(now)
               /\ ~res.db.rooms[room_number].occupied
               /\ res.db.rooms[room_number].current_guest_id = None
               /\ RoomItems(db, b) # {} =>
                      LET item == res.db.line_items[FirstRoomItem(db, b)]
                      IN /\ item.quantity = duration
                         /\ item.amount = item.unit_price * duration
               /\ res.db.bookings[b].subtotal =
                      Some(SumAmount(res.db.line_items, get_line_items(res.db, b)))
               /\ <<res.db.bookings[b].subtotal, res.db.bookings[b].tax_total,
                    res.db.bookings[b].discount_total, res.db.bookings[b].grand_total>>
                      = TotalsOf(res.db, b)

\* a checkout_booking call on a booking that is checked out is refused and
\* leaves the whole store, the room's occupancy included, as it was
DoubleCheckoutRefused ==
    \A b \in DOMAIN db.bookings :
        db.bookings[b].checkout_at # None
            => checkout_booking(db, b) = Raise(db, "ConflictError")

\* the step is a checkout_booking call that succeeds on booking b
CheckoutSucceeds(b) ==
    /\ db' # db
    /\ last'.op = "checkout_booking"
    /\ b \in DOMAIN db.bookings \cap DOMAIN db'.bookings
    /\ db.bookings[b].checkout_at = None
    /\ db'.bookings[b].checkout_at # None

\* C11: double checkout.  checkout_booking on a booking whose checkout_at is set
\* fails with ConflictError and changes neither the booking, its line items and
\* totals, nor the room's occupancy; hence no booking on which a checkout has
\* succeeded is checked out with success a second time.
C11_DoubleCheckout ==
    /\ []DoubleCheckoutRefused
    /\ [][\A b \in checked_out : ~CheckoutSucceeds(b)]_vars

\* C12: the booking lifecycle is one-way.  Once checkout_at of a booking is set
\* no operation makes it null again: in every step a booking that is checked
\* out and stays in the store stays checked out.
C12_LifecycleOneWay ==
    [][\A b \in DOMAIN db.bookings \cap DOMAIN db'.bookings :
           db.bookings[b].checkout_at # None => db'.bookings[b].checkout_at # None]_vars

\* the line items, taxes, discounts and stored totals of the store
InvoiceState(d) ==
    <<d.line_items, d.taxes, d.discounts,
      [b \in DOMAIN d.bookings |->
          <<d.bookings[b].subtotal, d.bookings[b].tax_total,
            d.bookings[b].discount_total, d.bookings[b].grand_total>>]>>

\* the line items of type "room" whose booking is in the store and active
ProtectedItems(d) ==
    {i \in DOMAIN d.line_items :
        /\ d.line_items[i].item_type = "room"
        /\ d.line_items[i].booking_id \in DOMAIN d.bookings
        /\ d.bookings[d.line_items[i].booking_id].checkout_at = None}

\* C13: protected room charge.  Removing a line item of type "room" that
\* belongs to an active booking fails with BadRequestError and changes no line
\* item, tax, discount or total, whatever booking of the store the call names.
C13_ProtectedRoomCharge ==
    \A i \in ProtectedItems(db) : \A b \in DOMAIN db.bookings :
        LET r == remove_invoice_item(db, b, i)
        IN /\ r.result = "BadRequestError"
           /\ InvoiceState(r.db) = InvoiceState(db)

\* C14: room line item invariant.  In every state reached by completed
\* operations every active booking has exactly one line item of type "room".
C14_ExactlyOneRoomItem ==
    \A b \in DOMAIN db.bookings :
        db.bookings[b].checkout_at = None => Cardinality(RoomItems(db, b)) = 1

\* the completed calls of the invoice operations and of checkout on the store d:
\* the store each leaves, the booking the call names and the bookings it is on,
\* which are the booking it names and the booking that owns the row it removes
Call(r, booking_id, on) == [result |-> r.result, db |-> r.db, booking_id |-> booking_id, on |-> on]

InvoiceCalls(d) ==
    {c \in
        {Call(add_invoice_item(d, b, q, u, ty), b, {b}) :
            b \in BookingIds, q \in Quantities, u \in UnitPrices, ty \in ItemTypes}
        \cup {Call(remove_invoice_item(d, b, i), b, {b, d.line_items[i].booking_id}) :
            b \in BookingIds, i \in DOMAIN d.line_items}
        \cup {Call(add_tax(d, b, rate), b, {b}) : b \in BookingIds, rate \in TaxRates}
        \cup {Call(remove_tax(d, b, t), b, {b, d.taxes[t].booking_id}) :
            b \in BookingIds, t \in DOMAIN d.taxes}
        \cup {Call(add_discount(d, b, a[1], a[2]), b, {b}) : b \in BookingIds, a \in DiscountInputs}
        \cup {Call(remove_discount(d, b, x), b, {b, d.discounts[x].booking_id}) :
            b \in BookingIds, x \in DOMAIN d.discounts}
        \cup {Call(checkout_booking(d, b), b, {b}) : b \in BookingIds} :
     c.result = "ok"}

\* every tax of the booking is rate percent of the booking's subtotal and
\* tax_total, 0 when it was never computed, is the sum of the taxes
TaxesRebased(d, booking_id) ==
    /\ \A t \in get_taxes(d, booking_id) :
           d.taxes[t].amount = Percent(NullAsZero(d.bookings[booking_id].subtotal), d.taxes[t].rate)
    /\ NullAsZero(d.bookings[booking_id].tax_total) = SumAmount(d.taxes, get_taxes(d, booking_id))

TaxesRebasedAfterCalls(d) ==
    \A c \in InvoiceCalls(d) :
        \A b \in c.on \cap DOMAIN c.db.bookings : TaxesRebased(c.db, b)

\* C15: tax re-basing.  After every completed add or remove of a line item, a
\* tax or a discount and after every completed checkout on a booking, every tax
\* of that booking has amount = subtotal * rate / 100 and the booking's
\* tax_total is the sum of its taxes' amounts.  The calls are made on every
\* store the operations reach and on the stores such a call leaves.
C15_TaxRebasing ==
    /\ TaxesRebasedAfterCalls(db)
    /\ \A c \in InvoiceCalls(db) : TaxesRebasedAfterCalls(c.db)

\* every percentage discount of the booking is that percentage of the sum of
\* the booking's line items, which is its stored subtotal
DiscountsRebased(d, booking_id) ==
    /\ d.bookings[booking_id].subtotal = Some(SumAmount(d.line_items, get_line_items(d, booking_id)))
    /\ \A x \in get_discounts(d, booking_id) :
           d.discounts[x].percentage # None =>
               d.discounts[x].amount =
                   Percent(Val(d.bookings[booking_id].subtotal), Val(d.discounts[x].percentage))

\* the rates of the taxes and the percentages of the discounts of a booking
TaxRatesOf(d, booking_id) == {d.taxes[t].rate : t \in get_taxes(d, booking_id)}
PercentagesOf(d, booking_id) == {d.discounts[x].percentage : x \in get_discounts(d, booking_id)}

\* the booking has subtotal 1000, one tax of 18% and one discount of 10%
IsExample(d, booking_id) ==
    /\ d.bookings[booking_id].subtotal = Some(1000)
    /\ Cardinality(get_taxes(d, booking_id)) = 1 /\ TaxRatesOf(d, booking_id) = {18}
    /\ Cardinality(get_discounts(d, booking_id)) = 1 /\ PercentagesOf(d, booking_id) = {Some(10)}

\* C16: percentage-discount re-basing.  After every recalculation of a booking
\* (called alone, or at the end of a completed add or remove of a line item, tax
\* or discount or of a checkout that names the booking) each percentage discount
\* of the booking has amount = subtotal * percentage / 100, the subtotal being
\* the sum of the line items and never a post-tax amount; a booking with
\* subtotal 1000, a tax of 18% and a discount of 10% has discount_total 100 and
\* grand_total 1080.
C16_PercentageDiscountRebasing ==
    /\ \A b \in DOMAIN db.bookings :
           DiscountsRebased(recalculate_booking_totals(db, b).db, b)
    /\ \A c \in InvoiceCalls(db) :
           /\ DiscountsRebased(c.db, c.booking_id)
           /\ IsExample(c.db, c.booking_id) =>
                  /\ c.db.bookings[c.booking_id].discount_total = Some(100)
                  /\ c.db.bookings[c.booking_id].grand_total = Some(1080)

\* a booking with a discount of 10%, worth 100: a charge of 200 added to it
\* makes the discount worth 120, and a tax of 18% added to it makes the example
C16_Witness ==
    \E b \in DOMAIN db.bookings : \E x \in get_discounts(db, b) :
        /\ db.discounts[x].percentage = Some(10) /\ db.discounts[x].amount = 100
        /\ LET r == add_invoice_item(db, b, 2, 100, "service")
           IN r.result = "ok" /\ r.db.discounts[x].amount = 120
        /\ \E c \in InvoiceCalls(db) :
               IsExample(c.db, b) /\ c.db.bookings[b].grand_total = Some(1080)

\* the discounts that were created with a fixed amount only
FixedDiscounts(d) == {x \in DOMAIN d.discounts : d.discounts[x].percentage = None}

\* add_discount with a fixed amount only stores a discount of that amount
FixedDiscountStored(d) ==
    \A b \in DOMAIN d.bookings : \A a \in DiscountInputs :
        (a[1] # None /\ a[2] = None) =>
            LET r == add_discount(d, b, a[1], a[2])
            IN /\ r.result = "ok"
               /\ \A x \in NewRows(d.discounts, r.db.discounts) :
                      r.db.discounts[x].amount = Val(a[1])

\* C17: fixed discounts are frozen.  A discount created with only a fixed
\* amount has that amount and keeps it through every later operation: in every
\* step a fixed discount that stays in the store has the amount it had, and no
\* recalculation of any booking rewrites it.
C17_FixedDiscountsFrozen ==
    /\ []FixedDiscountStored(db)
    /\ [][\A x \in FixedDiscounts(db) \cap DOMAIN db'.discounts :
              db'.discounts[x] = db.discounts[x]]_vars
    /\ [](\A b \in DOMAIN db.bookings : \A x \in FixedDiscounts(db) :
              recalculate_booking_totals(db, b).db.discounts[x] = db.discounts[x])

\* a booking with a fixed discount of 50 whose subtotal is no longer the one
\* the discount was added under
C17_Witness ==
    \E x \in FixedDiscounts(db) :
        /\ db.discounts[x].amount = 50
        /\ db.discounts[x].booking_id \in DOMAIN db.bookings
        /\ db.bookings[db.discounts[x].booking_id].subtotal \notin {Some(1000), Some(800)}
        /\ last.op \in {"add_invoice_item", "remove_invoice_item", "checkout_booking"}

\* C18: discount input validation.  add_discount creates a discount only when
\* exactly one of amount and percentage is supplied; with neither it fails with
\* BadRequestError; and a rejected call creates no discount row and leaves the
\* booking's totals, with the rest of the store, unchanged.
C18_DiscountValidation ==
    \A b \in BookingIds : \A a \in DiscountInputs :
        LET r == add_discount(db, b, a[1], a[2])
        IN /\ NewRows(db.discounts, r.db.discounts) # {}
                  => (a[1] = None) # (a[2] = None)
           /\ (a[1] = None /\ a[2] = None) => r.result = "BadRequestError"
           /\ r.result # "ok" => r.db = db

RowsOf(d, booking_id) ==
    get_line_items(d, booking_id) \cup get_taxes(d, booking_id) \cup get_discounts(d, booking_id)

C21_VacantRoomHasNoGuest ==
    \A n \in DOMAIN db.rooms : ~db.rooms[n].occupied => db.rooms[n].current_guest_id = None

\* the store d with room n replaced by the given row
WithRoom(d, n, room) == [d EXCEPT !.rooms[n] = room]

\* C22: room registry transitions.  occupy_room on an occupied room and
\* vacate_room on a vacant room fail with ConflictError and leave the room
\* unchanged; otherwise occupy sets occupied = true and current_guest_id = the
\* given guest and vacate sets occupied = false and current_guest_id = null,
\* nothing else in the store changing; both fail with NotFoundError for an
\* unknown room number.
C22_RegistryTransitions ==
    \A n \in RequestedRooms : \A g \in RequestedGuests :
        LET o == occupy_room(db, n, g)
            v == vacate_room(db, n)
        IN IF n \notin DOMAIN db.rooms
           THEN o = Raise(db, "NotFoundError") /\ v = Raise(db, "NotFoundError")
           ELSE IF db.rooms[n].occupied
           THEN /\ o = Raise(db, "ConflictError")
                /\ v = Ok(WithRoom(db, n, [db.rooms[n] EXCEPT !.occupied = FALSE,
                                                             !.current_guest_id = None]))
           ELSE /\ v = Raise(db, "ConflictError")
                /\ o = Ok(WithRoom(db, n, [db.rooms[n] EXCEPT !.occupied = TRUE,
                                                             !.current_guest_id = Some(g)]))

\* room 101 is occupied by a booking's guest, room 102 is there and vacant and
\* room 999 is not there, so each of the six outcomes happens
C22_Witness ==
    /\ \E n \in DOMAIN db.rooms :
           /\ db.rooms[n].occupied
           /\ occupy_room(db, n, 1).result = "ConflictError"
           /\ vacate_room(db, n).result = "ok"
           /\ ActiveBookings(db, n) # {}
    /\ \E n \in DOMAIN db.rooms :
           /\ ~db.rooms[n].occupied
           /\ occupy_room(db, n, 1).result = "ok"
           /\ vacate_room(db, n).result = "ConflictError"
    /\ \E n \in RequestedRooms :
           /\ occupy_room(db, n, 1).result = "NotFoundError"
           /\ vacate_room(db, n).result = "NotFoundError"

\* C23: checkin conflict.  Every booking that create_booking produced has
\* checkin_at recorded, and checkin_booking on it fails with ConflictError and
\* changes neither the booking nor the room nor anything else in the store.
C23_CheckinConflict ==
    \A b \in DOMAIN db.bookings :
        /\ db.bookings[b].checkin_at # None
        /\ checkin_booking(db, b) = Raise(db, "ConflictError")

\* a checked-out booking whose room is vacant, on which a checkin that went
\* on to occupy_room would succeed, and an active one
C23_Witness ==
    /\ \E b \in DOMAIN db.bookings :
           /\ db.bookings[b].checkout_at # None
           /\ ~db.rooms[db.bookings[b].room_number].occupied
           /\ checkin_booking(db, b).result = "ConflictError"
    /\ last.op \in {"checkout_booking", "update_booking"}

\* C24: notification isolation.  If sending the confirmation email after
\* create or the invoice email after checkout fails, the request still returns
\* the booking with success, and the committed store is exactly the one it
\* would be had the email been sent: the one the service call committed.
C24_NotificationIsolation ==
    \A outcome \in EmailOutcomes :
        /\ \A g \in RequestedGuests, r \in RequestedRooms, p \in Prices :
               /\ create_booking_endpoint(db, g, r, p, outcome)
                      = create_booking_endpoint(db, g, r, p, "sent")
               /\ create_booking_endpoint(db, g, r, p, outcome) = create_booking(db, g, r, p)
        /\ \A b \in BookingIds :
               /\ checkout_booking_endpoint(db, b, outcome)
                      = checkout_booking_endpoint(db, b, "sent")
               /\ checkout_booking_endpoint(db, b, outcome) = checkout_booking(db, b)

\* a vacant room that a create request books and an active booking that a
\* checkout request checks out, each with its email failing
C24_Witness ==
    /\ \E r \in DOMAIN db.rooms :
           create_booking_endpoint(db, 1, r, None, "raised").result = "ok"
    /\ \E b \in DOMAIN db.bookings :
           /\ send_email(checkout_booking(db, b).db, "raised").result = "Exception"
           /\ checkout_booking_endpoint(db, b, "raised").result = "ok"
    /\ last.result = "ok"

\* the invoice rows and stored totals of the bookings other than booking_id
InvoiceOfOthers(d, booking_id) ==
    <<[i \in {j \in DOMAIN d.line_items : d.line_items[j].booking_id # booking_id} |-> d.line_items[i]],
      [i \in {j \in DOMAIN d.taxes : d.taxes[j].booking_id # booking_id} |-> d.taxes[i]],
      [i \in {j \in DOMAIN d.discounts : d.discounts[j].booking_id # booking_id} |-> d.discounts[i]],
      [b \in DOMAIN d.bookings \ {booking_id} |->
          <<d.bookings[b].subtotal, d.bookings[b].tax_total,
            d.bookings[b].discount_total, d.bookings[b].grand_total>>]>>

\* C25: cross-booking frame.  remove_invoice_item, remove_tax and
\* remove_discount called with booking id b delete only a row that belongs to
\* b and change only b's totals: the line items, taxes, discounts and totals of
\* every other booking are after the call what they were before it.  The rows
\* the calls name are those of the bookings of the store.
C25_CrossBookingFrame ==
    \A b \in DOMAIN db.bookings :
        /\ \A i \in UNION {get_line_items(db, o) : o \in DOMAIN db.bookings} :
               InvoiceOfOthers(remove_invoice_item(db, b, i).db, b) = InvoiceOfOthers(db, b)
        /\ \A t \in UNION {get_taxes(db, o) : o \in DOMAIN db.bookings} :
               InvoiceOfOthers(remove_tax(db, b, t).db, b) = InvoiceOfOthers(db, b)
        /\ \A x \in UNION {get_discounts(db, o) : o \in DOMAIN db.bookings} :
               InvoiceOfOthers(remove_discount(db, b, x).db, b) = InvoiceOfOthers(db, b)

\* C26: checkout through update.  update_booking that supplies a checkout_at
\* for an active booking vacates the booking's room: after the call the booking
\* is checked out and its room has occupied = false.
C26_CheckoutThroughUpdate ==
    \A b \in DOMAIN db.bookings : \A data \in BookingUpdates :
        (/\ ValidUpdate(data)
         /\ "checkout_at" \in data.fields /\ data.checkout_at # None
         /\ db.bookings[b].checkout_at = None)
            => LET r == update_booking(db, b, data)
               IN /\ r.result = "ok"
                  /\ r.db.bookings[b].checkout_at # None
                  /\ ~r.db.rooms[db.bookings[b].room_number].occupied

\* C27: every active booking can be checked out.  In every state reached by
\* completed booking operations checkout_booking on a booking whose
\* checkout_at is null succeeds; it never fails with ConflictError because the
\* room is vacant already.
C27_ActiveBookingCanCheckOut ==
    \A b \in DOMAIN db.bookings :
        db.bookings[b].checkout_at = None => checkout_booking(db, b).result = "ok"

\* the add calls on the invoice of a booking, and the store a call leaves
AddCalls ==
    {[kind |-> "line_item", quantity |-> q, unit_price |-> u, item_type |-> ty] :
        q \in Quantities, u \in UnitPrices, ty \in ItemTypes}
    \cup {[kind |-> "tax", rate |-> rate] : rate \in TaxRates}
    \cup {[kind |-> "discount", amount |-> a[1], percentage |-> a[2]] :
            a \in {x \in DiscountInputs : x[1] # None \/ x[2] # None}}

ApplyAdd(d, booking_id, call) ==
    IF call.kind = "line_item"
    THEN add_invoice_item(d, booking_id, call.quantity, call.unit_price, call.item_type).db
    ELSE IF call.kind = "tax" THEN add_tax(d, booking_id, call.rate).db
    ELSE add_discount(d, booking_id, call.amount, call.percentage).db

\* the rows of a booking in a table, each with the number of times it occurs
RowCounts(table, ids) ==
    [row \in {table[i] : i \in ids} |-> Cardinality({i \in ids : table[i] = row})]

\* the invoice of a booking: its rows whatever their ids, and its stored totals
InvoiceOf(d, booking_id) ==
    <<RowCounts(d.line_items, get_line_items(d, booking_id)),
      RowCounts(d.taxes, get_taxes(d, booking_id)),
      RowCounts(d.discounts, get_discounts(d, booking_id)),
      d.bookings[booking_id].subtotal, d.bookings[booking_id].tax_total,
      d.bookings[booking_id].discount_total, d.bookings[booking_id].grand_total>>

C29_NoOrphanRows ==
    /\ \A i \in DOMAIN db.line_items : db.line_items[i].booking_id \in DOMAIN db.bookings
    /\ \A t \in DOMAIN db.taxes : db.taxes[t].booking_id \in DOMAIN db.bookings
    /\ \A x \in DOMAIN db.discounts : db.discounts[x].booking_id \in DOMAIN db.bookings

\* C30: task progress.  A pending task submitted through the execute endpoint,
\* which schedules execute_task and marks the task running, eventually reaches
\* status completed or failed; it never stays in running forever.
C30_TaskProgress ==
    \A id \in TaskIds :
        (id \in DOMAIN db.tasks /\ db.tasks[id].status = "running")
            ~> (id \in DOMAIN db.tasks /\ db.tasks[id].status \in {"completed", "failed"})

====
